---- MODULE Spec2Model ----
(***************************************************************************)
(* Model of rust-energy-meter: the two command-line mini-language parsers  *)
(* (src/src/cli.rs, src/src/utils.rs) and the Cmd registry with its        *)
(* hour -> period table (src/src/cmd.rs).                                  *)
(*                                                                         *)
(* A Rust &str is a sequence of characters; a character is a one-symbol    *)
(* TLA+ string.  "E2" stands for a character whose UTF-8 encoding takes    *)
(* two bytes (for instance e-acute); every other character takes one.      *)
(***************************************************************************)
EXTENDS Integers, Sequences, FiniteSets, TLC

VARIABLES
    bank_holidays,          \* Cmd.bank_holidays: HashSet<String>
    period_bank_holidays,   \* Cmd.period_bank_holidays: u8
    counters,               \* Cmd.counters: HashMap<u8, u64>, a function on its key set
    periods_times,          \* Cmd.periods_times: [u8; 24], indexed 0..23
    input,                  \* the argument of the function under check
    call,                   \* the last operation applied and its arguments
    ret,                    \* what the last operation returned
    okStrs,                 \* history: the strings of all with_bank_holidays calls
    allOk,                  \* history: no with_bank_holidays call has failed
    pairsLog                \* history: all pairs of all with_counters calls, in order

vars == <<bank_holidays, period_bank_holidays, counters, periods_times,
          input, call, ret, okStrs, allOk, pairsLog>>

(***************************************************************************)
(* Bounds of the model.                                                    *)
(***************************************************************************)
MaxFields  == 3   \* fields (dates and bare days) of a date-list input
MaxPairs   == 3   \* segments of a counter-list input
MaxWindows == 2   \* time windows of a sampled window list
MaxList    == 2   \* strings or pairs handed to one registry call
MaxLog     == 3   \* pairs handed to with_counters over a whole run
MaxSegs    == 2   \* segments of a counter-list input tried beside the date inputs

HoursPerDay == 24

(***************************************************************************)
(* Results: Result<T, String>, and a panic (the process aborts).           *)
(***************************************************************************)
Ok(v)  == [kind |-> "Ok",    val |-> v,    err |-> <<>>]
Err(e) == [kind |-> "Err",   val |-> <<>>, err |-> e]
Panic  == [kind |-> "Panic", val |-> <<>>, err |-> <<>>]
NoRet  == [kind |-> "None",  val |-> <<>>, err |-> <<>>]

IsOk(r)  == r.kind = "Ok"
IsErr(r) == r.kind = "Err"

(***************************************************************************)
(* Characters and strings.                                                 *)
(***************************************************************************)
Digits == <<"0", "1", "2", "3", "4", "5", "6", "7", "8", "9">>

IsDigit(c) == \E i \in 1..Len(Digits) : Digits[i] = c

DigitVal(c) == (CHOOSE i \in 1..Len(Digits) : Digits[i] = c) - 1

\* The length in bytes of a character's UTF-8 encoding.
ByteLen(c) == IF c = "E2" THEN 2 ELSE 1

RECURSIVE StrLen(_)
\* str::len: the length of a string in bytes.
StrLen(s) == IF s = <<>> THEN 0 ELSE ByteLen(Head(s)) + StrLen(Tail(s))

\* The index of the first occurrence of character c in s, 0 when there is none.
Find(s, c) ==
    IF \E i \in 1..Len(s) : s[i] = c
    THEN CHOOSE i \in 1..Len(s) : s[i] = c /\ \A j \in 1..(i - 1) : s[j] # c
    ELSE 0

RECURSIVE Split(_, _)
\* str::split(sep) collected: the pieces between the separators, one piece
\* more than there are separators (the empty string gives one empty piece).
Split(s, sep) ==
    LET i == Find(s, sep)
    IN  IF i = 0 THEN <<s>>
        ELSE <<SubSeq(s, 1, i - 1)>> \o Split(SubSeq(s, i + 1, Len(s)), sep)

\* str::split_once(sep): None, or the text before and after the first separator.
SplitOnce(s, sep) ==
    LET i == Find(s, sep)
    IN  IF i = 0 THEN [some |-> FALSE, name |-> <<>>, value |-> <<>>]
        ELSE [some |-> TRUE, name |-> SubSeq(s, 1, i - 1),
              value |-> SubSeq(s, i + 1, Len(s))]

\* format!("{}-{}", a, b)
FormatDash(a, b) == a \o <<"-">> \o b

RECURSIVE DigitsVal(_)
\* The number a string of decimal digits writes.
DigitsVal(ds) ==
    IF ds = <<>> THEN 0
    ELSE DigitsVal(SubSeq(ds, 1, Len(ds) - 1)) * 10 + DigitVal(ds[Len(ds)])

(***************************************************************************)
(* chrono: NaiveDate::parse_from_str(date, "%Y-%m-%d"), as the parsers     *)
(* call it.  The format is the items Year, '-', Month, '-', Day.  A        *)
(* numeric item takes at least one digit and at most its width (the year  *)
(* any number of digits after an explicit sign); what is left after the   *)
(* last item is an error; the three numbers must name a calendar date.    *)
(***************************************************************************)
ScanFail(e) == [e |-> e, rest |-> <<>>, n |-> 0]

\* format::scan::number(s, min, max)
ScanNumber(s, min, max) ==
    IF Len(s) < min THEN ScanFail("TooShort")
    ELSE LET lim == IF max < Len(s) THEN max ELSE Len(s)
             k   == Cardinality({i \in 1..lim : \A j \in 1..i : IsDigit(s[j])})
         IN  IF k < min THEN ScanFail("Invalid")
             ELSE [e |-> "", rest |-> SubSeq(s, k + 1, Len(s)),
                   n |-> DigitsVal(SubSeq(s, 1, k))]

\* The numeric item %Y: width 4, signed.
ScanYear(s) ==
    IF s # <<>> /\ s[1] = "-"
    THEN LET r == ScanNumber(Tail(s), 1, Len(s)) IN [r EXCEPT !.n = 0 - r.n]
    ELSE IF s # <<>> /\ s[1] = "+"
    THEN ScanNumber(Tail(s), 1, Len(s))
    ELSE ScanNumber(s, 1, 4)

\* The literal item '-'.
ScanLiteral(s, c) ==
    IF Len(s) < 1 THEN ScanFail("TooShort")
    ELSE IF s[1] # c THEN ScanFail("Invalid")
    ELSE [e |-> "", rest |-> Tail(s), n |-> 0]

IsLeapYear(y) == y % 4 = 0 /\ (y % 100 # 0 \/ y % 400 = 0)

DaysInMonth(y, m) ==
    IF m = 2 THEN (IF IsLeapYear(y) THEN 29 ELSE 28)
    ELSE IF m \in {4, 6, 9, 11} THEN 30 ELSE 31

\* NaiveDate::from_ymd_opt(y, m, d).is_some()
FromYmdOpt(y, m, d) == m \in 1..12 /\ d >= 1 /\ d <= DaysInMonth(y, m)

ParseFromStr(date) ==
    LET y  == ScanYear(date)
        l1 == ScanLiteral(y.rest, "-")
        m  == ScanNumber(l1.rest, 1, 2)
        l2 == ScanLiteral(m.rest, "-")
        d  == ScanNumber(l2.rest, 1, 2)
    IN  IF y.e # "" THEN Err(y.e)
        ELSE IF l1.e # "" THEN Err(l1.e)
        ELSE IF m.e # "" THEN Err(m.e)
        ELSE IF l2.e # "" THEN Err(l2.e)
        ELSE IF d.e # "" THEN Err(d.e)
        ELSE IF d.rest # <<>> THEN Err("TooLong")
        ELSE IF ~FromYmdOpt(y.n, m.n, d.n) THEN Err("OutOfRange")
        ELSE Ok(<<y.n, m.n, d.n>>)

(***************************************************************************)
(* core: str::parse::<u8>() and str::parse::<u64>().  An optional '+',    *)
(* then decimal digits; no '-' for an unsigned type.                       *)
(***************************************************************************)
U8Max  == <<"2", "5", "5">>
U64Max == <<"1", "8", "4", "4", "6", "7", "4", "4", "0", "7",
            "3", "7", "0", "9", "5", "5", "1", "6", "1", "5">>

RECURSIVE StripZeros(_)
StripZeros(ds) == IF ds # <<>> /\ Head(ds) = "0" THEN StripZeros(Tail(ds)) ELSE ds

\* Whether the digit string ds writes a number above the one max writes.
Overflows(ds, max) ==
    LET sd == StripZeros(ds)
    IN  \/ Len(sd) > Len(max)
        \/ /\ Len(sd) = Len(max)
           /\ \E i \in 1..Len(sd) :
                 /\ DigitVal(sd[i]) > DigitVal(max[i])
                 /\ \A j \in 1..(i - 1) : sd[j] = max[j]

ParseUnsigned(src, max) ==
    IF src = <<>> THEN Err("Empty")
    ELSE IF src[1] \in {"+", "-"} /\ Len(src) = 1 THEN Err("InvalidDigit")
    ELSE LET ds == IF src[1] = "+" THEN Tail(src) ELSE src
         IN  IF \E i \in 1..Len(ds) : ~IsDigit(ds[i]) THEN Err("InvalidDigit")
             ELSE IF Overflows(ds, max) THEN Err("PosOverflow")
             ELSE Ok(DigitsVal(ds))

\* str::get(a..b) on byte offsets: None unless both offsets fall on character
\* boundaries inside the string.
StrGet(s, a, b) ==
    LET Off(i) == StrLen(SubSeq(s, 1, i))   \* the byte offset after i characters
        B      == {Off(i) : i \in 0..Len(s)}
    IN  IF a \in B /\ b \in B /\ a <= b
        THEN [some |-> TRUE,
              str  |-> SubSeq(s, (CHOOSE i \in 0..Len(s) : Off(i) = a) + 1,
                                 CHOOSE i \in 0..Len(s) : Off(i) = b)]
        ELSE [some |-> FALSE, str |-> <<>>]

(***************************************************************************)
(* cli.rs: dates_list_check.  Error messages are kept as the message kind  *)
(* and the texts the message quotes.                                       *)
(***************************************************************************)
RECURSIVE dlc_days_dedup(_, _, _)
\* dlc_days that drops a date the list already holds.
dlc_days_dedup(year_month, days, dates) ==
    IF days = <<>> THEN Ok(dates)
    ELSE LET date == FormatDash(year_month, Head(days))
         IN  IF IsErr(ParseFromStr(date)) THEN Err(<<"not_yyyy_mm_dd", date>>)
             ELSE dlc_days_dedup(year_month, Tail(days),
                                 IF date \in {dates[i] : i \in 1..Len(dates)} THEN dates
                                 ELSE Append(dates, date))

RECURSIVE dlc_days_unchecked(_, _, _)
\* dlc_days that composes the bare days without validating them.
dlc_days_unchecked(year_month, days, dates) ==
    IF days = <<>> THEN Ok(dates)
    ELSE dlc_days_unchecked(year_month, Tail(days),
                            Append(dates, FormatDash(year_month, Head(days))))

RECURSIVE dlc_days(_, _, _)
\* The loop over the bare days that follow a unit's first field.
dlc_days(year_month, days, dates) ==
    IF days = <<>> THEN Ok(dates)
    ELSE LET date == FormatDash(year_month, Head(days))
         IN  IF IsErr(ParseFromStr(date)) THEN Err(<<"not_yyyy_mm_dd", date>>)
             ELSE dlc_days(year_month, Tail(days), Append(dates, date))

\* The body of the loop over the units: one unit, appended to dates.
dlc_unit(date_unit, dates) ==
    LET days == Split(date_unit, ",")
    IN  IF days = <<>> THEN Err(<<"invalid_number_of_semicolons", date_unit>>)
        ELSE
        LET d     == Head(days)
            parts == Split(d, "-")
        IN  IF Len(parts) # 3 THEN Err(<<"invalid_number_of_dashes", date_unit, d>>)
            ELSE
            LET year_month == FormatDash(parts[1], parts[2])
                date       == FormatDash(year_month, parts[3])
                parsed     == ParseFromStr(date)
            IN  IF IsErr(parsed)
                THEN Err(<<"not_yyyy_mm_dd_or_not_valid", date, parsed.err>>)
                ELSE dlc_days(year_month, Tail(days), Append(dates, date))

RECURSIVE dlc_units_skip_empty(_, _)
\* dlc_units that passes over an empty unit.
dlc_units_skip_empty(units, dates) ==
    IF units = <<>> THEN Ok(dates)
    ELSE IF Head(units) = <<>> THEN dlc_units_skip_empty(Tail(units), dates)
    ELSE LET r == dlc_unit(Head(units), dates)
         IN  IF IsErr(r) THEN r ELSE dlc_units_skip_empty(Tail(units), r.val)

RECURSIVE dlc_units(_, _)
dlc_units(units, dates) ==
    IF units = <<>> THEN Ok(dates)
    ELSE LET r == dlc_unit(Head(units), dates)
         IN  IF IsErr(r) THEN r ELSE dlc_units(Tail(units), r.val)

dates_list_check(s) == dlc_units(Split(s, ";"), <<>>)

(***************************************************************************)
(* utils.rs: parse_date_multiple_days.                                     *)
(***************************************************************************)
RECURSIVE pdmd_days_unchecked(_, _, _)
\* pdmd_days that composes the bare days without validating them.
pdmd_days_unchecked(year_month, days, dates) ==
    IF days = <<>> THEN Ok(dates)
    ELSE pdmd_days_unchecked(year_month, Tail(days),
                             Append(dates, FormatDash(year_month, Head(days))))

RECURSIVE pdmd_days(_, _, _)
\* The loop over the bare days that follow the first field.
pdmd_days(year_month, days, dates) ==
    IF days = <<>> THEN Ok(dates)
    ELSE LET date == FormatDash(year_month, Head(days))
         IN  IF IsErr(ParseFromStr(date)) THEN Err(<<"not_yyyy_mm_dd", date>>)
             ELSE pdmd_days(year_month, Tail(days), Append(dates, date))

parse_date_multiple_days(s) ==
    LET days == Split(s, ",")
    IN  IF days = <<>> THEN Ok(<<>>)
        ELSE
        LET d     == Head(days)
            parts == Split(d, "-")
        IN  IF Len(parts) # 3 THEN Err(<<"invalid_number_of_dashes", s, d>>)
            ELSE
            LET year_month == FormatDash(parts[1], parts[2])
                date       == FormatDash(year_month, parts[3])
                parsed     == ParseFromStr(date)
            IN  IF IsErr(parsed)
                THEN Err(<<"not_yyyy_mm_dd_or_not_valid", date, parsed.err>>)
                ELSE pdmd_days(year_month, Tail(days), <<date>>)

(***************************************************************************)
(* utils.rs: parse_meter_counter.  An unwrap of None is a panic.           *)
(***************************************************************************)
parse_meter_counter(s) ==
    LET so == SplitOnce(s, "=")
    IN  IF ~so.some THEN Err(<<"no_equals", s>>)
        ELSE
        LET name  == so.name
            value == so.value
            g0    == StrGet(name, 0, 1)
            g1    == StrGet(name, 1, 2)
        IN  IF StrLen(name) # 2 THEN Err(<<"name_not_p_digit", s, name>>)
            ELSE IF ~g0.some THEN Panic
            ELSE IF g0.str # <<"p">> THEN Err(<<"name_no_p", s, name>>)
            ELSE IF ~g1.some THEN Panic
            ELSE
            LET pi == ParseUnsigned(g1.str, U8Max)
                pv == ParseUnsigned(value, U64Max)
            IN  IF IsErr(pi) THEN Err(<<"name_no_digit", s, name, pi.err>>)
                ELSE IF IsErr(pv) THEN Err(<<"value_not_unsigned", s, value, pv.err>>)
                ELSE Ok(<<pi.val, pv.val>>)

(***************************************************************************)
(* cli.rs: meter_counters_check.                                           *)
(***************************************************************************)
\* The body of the loop over the segments: one segment, appended to periods.
mcc_period(period, periods) ==
    LET so == SplitOnce(period, "=")
    IN  IF ~so.some THEN Err(<<"no_equals", period>>)
        ELSE
        LET name  == so.name
            value == so.value
            g0    == StrGet(name, 0, 1)
            g1    == StrGet(name, 1, 2)
        IN  IF StrLen(name) # 2 THEN Err(<<"name_no_p", period, name>>)
            ELSE IF ~g0.some THEN Panic
            ELSE IF g0.str # <<"p">> THEN Err(<<"name_no_p", period, name>>)
            ELSE IF ~g1.some THEN Panic
            ELSE
            LET pi == ParseUnsigned(g1.str, U8Max)
                pv == ParseUnsigned(value, U64Max)
            IN  IF IsErr(pi) THEN Err(<<"name_no_single_digit", period, name, pi.err>>)
                ELSE IF IsErr(pv)
                THEN Err(<<"value_not_unsigned", period, value, pv.err>>)
                ELSE Ok(Append(periods, <<pi.val, pv.val>>))

RECURSIVE mcc_loop_last_wins(_, _)
\* mcc_loop that keeps only the last pair of a period.
mcc_loop_last_wins(segs, periods) ==
    IF segs = <<>> THEN Ok(periods)
    ELSE LET r == mcc_period(Head(segs), <<>>)
         IN  IF ~IsOk(r) THEN r
             ELSE mcc_loop_last_wins(Tail(segs),
                      Append(SelectSeq(periods, LAMBDA q : q[1] # r.val[1][1]), r.val[1]))

RECURSIVE mcc_loop(_, _)
mcc_loop(segs, periods) ==
    IF segs = <<>> THEN Ok(periods)
    ELSE LET r == mcc_period(Head(segs), periods)
         IN  IF ~IsOk(r) THEN r ELSE mcc_loop(Tail(segs), r.val)

meter_counters_check(s) == mcc_loop(Split(s, ","), <<>>)

(***************************************************************************)
(* cmd.rs: Cmd.                                                            *)
(***************************************************************************)
Range(f) == {f[i] : i \in DOMAIN f}

RECURSIVE FillRange_inclusive(_, _, _, _)
\* FillRange over start..=current_end, the end hour included.
FillRange_inclusive(st, t, current_end, period) ==
    IF t > current_end THEN st
    ELSE FillRange_inclusive([st EXCEPT !.pt = [h \in DOMAIN @ |->
                                                   IF h = t THEN period ELSE @[h]],
                                        !.writes = Append(@, t)],
                             t + 1, current_end, period)

\* A window's fill state: the table, the slot indices written so far for the
\* window (in order) and the number of passes of its `loop` so far.
RECURSIVE FillRange(_, _, _, _)
\* for t in start..current_end { period_times[t as usize] = period }
FillRange(st, t, current_end, period) ==
    IF t >= current_end THEN st
    ELSE FillRange([st EXCEPT !.pt = [@ EXCEPT ![t] = period],
                              !.writes = Append(@, t)],
                   t + 1, current_end, period)

\* WindowLoop without the second pass of a window that wraps past midnight.
WindowLoop_one_pass(st, period, start, current_end, end) ==
    FillRange([st EXCEPT !.passes = @ + 1], start, current_end, period)

RECURSIVE WindowLoop(_, _, _, _, _)
\* One iteration of `loop` and, unless it breaks, the iterations after it.
WindowLoop(st, period, start, current_end, end) ==
    LET filled == FillRange([st EXCEPT !.passes = @ + 1], start, current_end, period)
    IN  IF current_end = end THEN filled
        ELSE WindowLoop(filled, period, 0, end, end)

\* The body of `for w in time_windows`, w = (period, start, end).
IndexWindow(pt, w) ==
    LET period      == w[1]
        start       == w[2]
        end         == w[3]
        current_end == IF end < start THEN HoursPerDay ELSE end
    IN  WindowLoop([pt |-> pt, writes |-> <<>>, passes |-> 0],
                   period, start, current_end, end)

RECURSIVE ipt_loop(_, _)
ipt_loop(pt, time_windows) ==
    IF time_windows = <<>> THEN pt
    ELSE ipt_loop(IndexWindow(pt, Head(time_windows)).pt, Tail(time_windows))

index_period_times(time_windows) ==
    ipt_loop([h \in 0..(HoursPerDay - 1) |-> 0], time_windows)

\* MapInsert that keeps the value a key already has.
MapInsert_keep_first(m, k, v) ==
    [x \in (DOMAIN m) \cup {k} |-> IF x \in DOMAIN m THEN m[x] ELSE v]

\* HashMap::insert
MapInsert(m, k, v) == [x \in (DOMAIN m) \cup {k} |-> IF x = k THEN v ELSE m[x]]

RECURSIVE wbh_loop_replace(_, _)
\* wbh_loop that stores the days of each string in place of the set so far.
wbh_loop_replace(dates, bh) ==
    IF dates = <<>> THEN [bh |-> bh, ret |-> Ok(<<>>)]
    ELSE LET days == parse_date_multiple_days(Head(dates))
         IN  IF ~IsOk(days) THEN [bh |-> bh, ret |-> days]
             ELSE wbh_loop_replace(Tail(dates), Range(days.val))

RECURSIVE wbh_loop_skip(_, _)
\* wbh_loop that goes on with the strings after one that fails.
wbh_loop_skip(dates, bh) ==
    IF dates = <<>> THEN [bh |-> bh, ret |-> Ok(<<>>)]
    ELSE LET days == parse_date_multiple_days(Head(dates))
             rest == wbh_loop_skip(Tail(dates), IF IsOk(days) THEN bh \cup Range(days.val)
                                                ELSE bh)
         IN  IF IsOk(days) THEN rest ELSE [bh |-> rest.bh, ret |-> days]

RECURSIVE wbh_loop(_, _)
\* with_bank_holidays: the set after the call and what the call returns.
wbh_loop(dates, bh) ==
    IF dates = <<>> THEN [bh |-> bh, ret |-> Ok(<<>>)]
    ELSE LET days == parse_date_multiple_days(Head(dates))
         IN  IF ~IsOk(days) THEN [bh |-> bh, ret |-> days]
             ELSE wbh_loop(Tail(dates), bh \cup Range(days.val))

\* wc_loop that builds the map from the call's pairs alone.
wc_loop_rebuild(periods, m) ==
    [p \in {periods[i][1] : i \in 1..Len(periods)} |->
        periods[CHOOSE i \in 1..Len(periods) :
                    /\ periods[i][1] = p
                    /\ \A j \in (i + 1)..Len(periods) : periods[j][1] # p][2]]

RECURSIVE wc_loop(_, _)
\* with_counters: the map after the call.
wc_loop(periods, m) ==
    IF periods = <<>> THEN m
    ELSE wc_loop(Tail(periods), MapInsert(m, Head(periods)[1], Head(periods)[2]))

(***************************************************************************)
(* Inputs.  Texts are written through zero-padded formatting.              *)
(***************************************************************************)
RECURSIVE Pad(_, _)
\* n as w decimal digits, zero padded.
Pad(n, w) == IF w = 0 THEN <<>> ELSE Append(Pad(n \div 10, w - 1), Digits[(n % 10) + 1])

RECURSIVE Join(_, _)
\* The texts of a list, with sep between them.
Join(texts, sep) ==
    IF texts = <<>> THEN <<>>
    ELSE IF Len(texts) = 1 THEN texts[1]
    ELSE texts[1] \o <<sep>> \o Join(Tail(texts), sep)

YearMonth(y, m) == FormatDash(Pad(y, 4), Pad(m, 2))

\* The texts tried as a day: in a 30-day month two that exist, one that does
\* not, and a day of one digit.
DayTexts == {Pad(30, 2), Pad(31, 2), Pad(5, 2), Pad(5, 1)}

\* The texts tried as the first field of a unit: February 29 in a common and
\* in a leap year, days of September, and fields of another shape.
FirstFields ==
    {FormatDash(YearMonth(y, 2), Pad(29, 2)) : y \in {2023, 2024}}
        \cup {FormatDash(YearMonth(2023, 9), d) : d \in DayTexts}
        \cup {<<>>, YearMonth(2023, 9),
              FormatDash(FormatDash(Pad(23, 2), Pad(9, 1)), Pad(30, 2))}

\* The texts tried as a later field of a unit.
ExtraFields == DayTexts \cup {<<>>}

\* The units of exactly n fields.
DateUnits(n) ==
    {Join(<<f>> \o es, ",") : f \in FirstFields, es \in [1..(n - 1) -> ExtraFields]}

RECURSIVE DateInputsN(_)
\* The inputs of exactly n fields, in one or more units.
DateInputsN(n) ==
    DateUnits(n) \cup
        UNION {{u \o <<";">> \o r : u \in DateUnits(k), r \in DateInputsN(n - k)} :
               k \in 1..(n - 1)}

\* The inputs of up to max fields.
DateInputs(max) == UNION {DateInputsN(n) : n \in 1..max}

\* The texts tried as a segment of a counter list: names with a good value,
\* values with a good name, and segments without '='.
Segments ==
    {nm \o <<"=">> \o Pad(10, 2) :
        nm \in {<<"p", "1">>, <<"p", "9">>, <<"p">>, <<"a", "1">>,
                <<"p", "1", "0">>, <<"E2">>, <<"p", "x">>}}
        \cup {<<"p", "3", "=">> \o v :
                v \in {<<>>, <<"7">>, <<"+", "7">>, <<"-", "7">>, <<"1", ".", "5">>,
                       <<"k">>, <<"1", "=", "2">>}}
        \cup {<<>>, <<"p", "1">>}

\* The inputs of up to max segments.
CounterInputs(max) ==
    UNION {{Join(segs, ",") : segs \in [1..n -> Segments]} : n \in 1..max}

\* The window list of the tests and of the default time windows.
DefaultWindows ==
    <<<<1, 10, 14>>, <<1, 18, 22>>, <<2, 8, 10>>, <<2, 14, 18>>, <<2, 22, 0>>, <<3, 0, 8>>>>

Lists(S, n) == UNION {[1..k -> S] : k \in 0..n}

\* Every single window with start in 0..23 and end in 0..24, and the lists of
\* up to max windows over sampled hours.
WindowInputs(max) ==
    {<<w>> : w \in {1} \X (0..(HoursPerDay - 1)) \X (0..HoursPerDay)}
        \cup Lists({1, 2} \X {0, 10, 22} \X {0, 8, 14, 24}, max)
        \cup {DefaultWindows}

\* The strings handed to with_bank_holidays: a single date, a unit that
\* repeats that date and one of its own, and a unit whose second day does not
\* exist.
DateStrs ==
    {FormatDash(YearMonth(2022, 12), Pad(26, 2)),
     FormatDash(YearMonth(2022, 12), Pad(25, 2)) \o <<",">> \o Pad(26, 2)
         \o <<",">> \o Pad(25, 2),
     FormatDash(YearMonth(2023, 2), Pad(28, 2)) \o <<",">> \o Pad(29, 2)}

\* The pairs handed to with_counters.
Pairs == {1, 10} \X {60, 89}

(***************************************************************************)
(* The state after Cmd::new, and the harness around it.                    *)
(***************************************************************************)
NoCall == [op |-> "none", args |-> <<>>]

New(time_windows, pbh) ==
    /\ bank_holidays = {}
    /\ period_bank_holidays = pbh
    /\ counters = <<>>
    /\ periods_times = index_period_times(time_windows)

Fresh ==
    /\ call = NoCall
    /\ ret = NoRet
    /\ okStrs = {}
    /\ allOk = TRUE
    /\ pairsLog = <<>>

Init ==
    /\ \E a \in {<<<<>>, 0>>, <<DefaultWindows, 3>>} : New(a[1], a[2])
    /\ input = <<>>
    /\ Fresh

cmd == <<bank_holidays, period_bank_holidays, counters, periods_times>>

WithBankHolidays(dates) ==
    LET r == wbh_loop(dates, bank_holidays)
    IN  /\ bank_holidays' = r.bh
        /\ ret' = r.ret
        /\ call' = [op |-> "with_bank_holidays", args |-> dates]
        /\ okStrs' = okStrs \cup Range(dates)
        /\ allOk' = (allOk /\ IsOk(r.ret))
        /\ UNCHANGED <<period_bank_holidays, counters, periods_times, input, pairsLog>>

WithCounters(periods) ==
    /\ Len(pairsLog) + Len(periods) <= MaxLog
    /\ counters' = wc_loop(periods, counters)
    /\ ret' = Ok(<<>>)
    /\ call' = [op |-> "with_counters", args |-> periods]
    /\ pairsLog' = pairsLog \o periods
    /\ UNCHANGED <<bank_holidays, period_bank_holidays, periods_times, input,
                   okStrs, allOk>>

\* The lists of strings handed to one with_bank_holidays call.
DateLists == Lists(DateStrs, MaxList)

\* The lists of pairs handed to one with_counters call.
PairLists == Lists(Pairs, MaxList)

NextHolidays == \E dates \in DateLists : WithBankHolidays(dates)

NextCounters == \E periods \in PairLists : WithCounters(periods)

Next == NextHolidays \/ NextCounters

Spec == Init /\ [][Next]_vars

SpecHolidays == Init /\ [][NextHolidays]_vars

SpecCounters == Init /\ [][NextCounters]_vars

\* The registry under calls of both kinds, each with a list of one element.
NextSingle ==
    \/ \E s \in DateStrs : WithBankHolidays(<<s>>)
    \/ \E p \in Pairs : WithCounters(<<p>>)

SpecSingle == Init /\ [][NextSingle]_vars

(***************************************************************************)
(* The parsers and the table builder as functions of an input.             *)
(***************************************************************************)
Apply(op, result) ==
    /\ call' = [op |-> op, args |-> input]
    /\ ret' = result
    /\ UNCHANGED <<cmd, input, okStrs, allOk, pairsLog>>

DatesListCheck == Apply("dates_list_check", dates_list_check(input))

ParseDateMultipleDays == Apply("parse_date_multiple_days", parse_date_multiple_days(input))

MeterCountersCheck == Apply("meter_counters_check", meter_counters_check(input))

ParseMeterCounter == Apply("parse_meter_counter", parse_meter_counter(input))

IndexPeriodTimes ==
    /\ periods_times' = index_period_times(input)
    /\ call' = [op |-> "index_period_times", args |-> input]
    /\ ret' = NoRet
    /\ UNCHANGED <<bank_holidays, period_bank_holidays, counters, input,
                   okStrs, allOk, pairsLog>>

InitDates == New(<<>>, 0) /\ Fresh /\ input \in DateInputs(MaxFields)

NextDates == DatesListCheck \/ ParseDateMultipleDays

SpecDates == InitDates /\ [][NextDates]_vars

InitMeter == New(<<>>, 0) /\ Fresh /\ input \in CounterInputs(MaxPairs)

NextMeter == MeterCountersCheck \/ ParseMeterCounter

SpecMeter == InitMeter /\ [][NextMeter]_vars

\* The four parsers, each on every input of either grammar.
InitParsers ==
    New(<<>>, 0) /\ Fresh /\ input \in DateInputs(MaxFields) \cup CounterInputs(MaxSegs)

NextParsers ==
    \/ DatesListCheck
    \/ ParseDateMultipleDays
    \/ MeterCountersCheck
    \/ ParseMeterCounter

SpecParsers == InitParsers /\ [][NextParsers]_vars

InitTable == New(<<>>, 0) /\ Fresh /\ input \in WindowInputs(MaxWindows)

NextTable == IndexPeriodTimes

SpecTable == InitTable /\ [][NextTable]_vars

(***************************************************************************)
(* What the claims say, stated from the input text alone: the fields of a  *)
(* text are what lies between its separators.                              *)
(***************************************************************************)
Max(S) == CHOOSE x \in S : \A y \in S : y <= x

SepAt(s, seps) == {i \in 1..Len(s) : s[i] \in seps}

Cuts(s, seps) == {0} \cup SepAt(s, seps) \cup {Len(s) + 1}

NumFields(s, seps) == Cardinality(SepAt(s, seps)) + 1

\* The k-th cut in ascending order, counted from 0.
CutNo(s, seps, k) ==
    CHOOSE c \in Cuts(s, seps) : Cardinality({x \in Cuts(s, seps) : x < c}) = k

FieldNo(s, seps, k) == SubSeq(s, CutNo(s, seps, k - 1) + 1, CutNo(s, seps, k) - 1)

\* The number of the field that opens the unit of field k.
UnitFirst(s, seps, k) ==
    Max({j \in 1..k : j = 1 \/ s[CutNo(s, seps, j - 1)] = ";"})

\* The date field k stands for: the first field of a unit as it is, a later
\* field behind the year-month of the unit's first field.
ComposedNo(s, seps, k) ==
    LET j      == UnitFirst(s, seps, k)
        f      == FieldNo(s, seps, j)
        dashes == SepAt(f, {"-"})
    IN  IF k = j THEN f
        ELSE IF Cardinality(dashes) = 2
        THEN SubSeq(f, 1, Max(dashes)) \o FieldNo(s, seps, k)
        ELSE <<>>

ExpectedDates(s, seps) == [k \in 1..NumFields(s, seps) |-> ComposedNo(s, seps, k)]

Applied(op) == call.op = op

(***************************************************************************)
(* C1.  The table index_period_times returns holds, for every hour h, the  *)
(* period of the last window of the list that covers h, and 0 when no      *)
(* window covers h.  A window covers h when start <= h < end if            *)
(* end >= start, and when h >= start or h < end if end < start; a window   *)
(* with start = end covers no hour.                                        *)
(***************************************************************************)
Covers(w, h) ==
    IF w[3] >= w[2] THEN w[2] <= h /\ h < w[3] ELSE h >= w[2] \/ h < w[3]

LastCovering(ws, h) ==
    LET I == {i \in 1..Len(ws) : Covers(ws[i], h)}
    IN  IF I = {} THEN 0 ELSE ws[Max(I)][1]

C1_TableHoldsLastCoveringWindow ==
    Applied("index_period_times") =>
        /\ DOMAIN periods_times = 0..(HoursPerDay - 1)
        /\ \A h \in 0..(HoursPerDay - 1) : periods_times[h] = LastCovering(input, h)
        /\ \A i \in 1..Len(input) :
              input[i][2] = input[i][3] => \A h \in 0..(HoursPerDay - 1) : ~Covers(input[i], h)

\* A window that wraps past midnight, overwritten in one of its hours by a
\* later window of another period.
C1_Witness ==
    /\ Applied("index_period_times")
    /\ Len(input) = 2
    /\ input[1][3] < input[1][2]
    /\ input[1][3] > 0
    /\ input[1][1] # input[2][1]
    /\ \E h, g \in 0..(HoursPerDay - 1) :
          /\ Covers(input[1], h) /\ Covers(input[2], h)
          /\ periods_times[h] = input[2][1]
          /\ g < input[1][3] /\ ~Covers(input[2], g)
          /\ periods_times[g] = input[1][1]

(***************************************************************************)
(* C2.  While every with_bank_holidays call has succeeded, bank_holidays   *)
(* is exactly the set of the dates of all strings of all calls, each       *)
(* stored once however often it was given, and a call whose strings all    *)
(* parse returns Ok.                                                       *)
(***************************************************************************)
DatesOf(S) == UNION {Range(ExpectedDates(s, {","})) : s \in S}

C2_HolidaysAreTheDistinctDates ==
    /\ allOk =>
          /\ bank_holidays = DatesOf(okStrs)
          /\ Cardinality(bank_holidays) = Cardinality(DatesOf(okStrs))
    /\ (Applied("with_bank_holidays")
          /\ \A i \in 1..Len(call.args) : IsOk(parse_date_multiple_days(call.args[i])))
        => IsOk(ret)

\* A date given twice in one string, in two strings of a call, and stored once.
C2_Witness ==
    /\ allOk
    /\ Applied("with_bank_holidays")
    /\ Len(call.args) = 2
    /\ call.args[1] # call.args[2]
    /\ \E s \in okStrs : NumFields(s, {","}) = 3 /\ FieldNo(s, {","}, 1) = ComposedNo(s, {","}, 3)
    /\ Cardinality(bank_holidays) = 2

(***************************************************************************)
(* C3.  After any sequence of with_counters calls the counters map has a   *)
(* key for exactly the periods that appeared in a pair of some call, and   *)
(* holds for each the value of the last pair with that period in the       *)
(* concatenation of all calls' lists.                                      *)
(***************************************************************************)
C3_CountersHoldLastPair ==
    /\ DOMAIN counters = {pairsLog[i][1] : i \in 1..Len(pairsLog)}
    /\ \A p \in DOMAIN counters :
          counters[p] = pairsLog[Max({i \in 1..Len(pairsLog) : pairsLog[i][1] = p})][2]

\* A second call that overwrites one period of the first and leaves the other.
C3_Witness ==
    /\ Applied("with_counters")
    /\ Len(pairsLog) = 3
    /\ Len(call.args) = 1
    /\ pairsLog[1][1] # pairsLog[2][1]
    /\ pairsLog[3][1] = pairsLog[1][1]
    /\ pairsLog[3][2] # pairsLog[1][2]
    /\ counters[pairsLog[1][1]] = pairsLog[3][2]
    /\ counters[pairsLog[2][1]] = pairsLog[2][2]

(***************************************************************************)
(* C4.  A with_bank_holidays call whose k-th string is the first that      *)
(* parse_date_multiple_days rejects returns that string's parser error and *)
(* leaves bank_holidays as it was before the call plus the dates of the    *)
(* strings before the k-th: nothing of the k-th or of a later string is    *)
(* added, nothing stored before is lost.                                   *)
(***************************************************************************)
\* What parse_date_multiple_days returns for each string a call may be given.
Parsed == [s \in DateStrs |-> parse_date_multiple_days(s)]

FirstBad(dates) ==
    LET B == {i \in 1..Len(dates) : ~IsOk(Parsed[dates[i]])}
    IN  IF B = {} THEN 0 ELSE CHOOSE k \in B : \A i \in B : k <= i

C4_FailingCallStopsAtFirstBadString ==
    [][(call'.op = "with_bank_holidays" /\ FirstBad(call'.args) # 0) =>
          LET k == FirstBad(call'.args)
          IN  /\ ret' = Parsed[call'.args[k]]
              /\ IsErr(ret')
              /\ bank_holidays' =
                    bank_holidays \cup
                        UNION {Range(Parsed[call'.args[i]].val) : i \in 1..(k - 1)}]_vars

\* A call that failed at its second string: the dates of the first are
\* stored, the valid first date of the second is not.
C4_Witness ==
    /\ Applied("with_bank_holidays")
    /\ IsErr(ret)
    /\ FirstBad(call.args) = 2
    /\ Range(Parsed[call.args[1]].val) \subseteq bank_holidays
    /\ FieldNo(call.args[2], {","}, 1) \notin bank_holidays
    /\ IsOk(parse_date_multiple_days(FieldNo(call.args[2], {","}, 1)))

(***************************************************************************)
(* C5.  An accepted input gives exactly one date per comma-separated field *)
(* of each unit, in input order: the first field of a unit as written, a   *)
(* later field behind the year-month of its unit's first field; repeated   *)
(* dates are kept, so there are as many dates as fields.                   *)
(***************************************************************************)
C5_OneDatePerFieldInOrder ==
    /\ (Applied("dates_list_check") /\ IsOk(ret)) =>
          /\ Len(ret.val) = NumFields(input, {",", ";"})
          /\ \A k \in 1..Len(ret.val) : ret.val[k] = ComposedNo(input, {",", ";"}, k)
    /\ (Applied("parse_date_multiple_days") /\ IsOk(ret)) =>
          /\ Len(ret.val) = NumFields(input, {","})
          /\ \A k \in 1..Len(ret.val) : ret.val[k] = ComposedNo(input, {","}, k)

\* An accepted list of two units and three fields that holds a date twice.
C5_Witness ==
    /\ Applied("dates_list_check")
    /\ IsOk(ret)
    /\ Len(ret.val) = 3
    /\ SepAt(input, {";"}) # {}
    /\ SepAt(input, {","}) # {}
    /\ \E i, j \in 1..3 : i < j /\ ret.val[i] = ret.val[j]
    /\ \E i, j \in 1..3 : ret.val[i] # ret.val[j]

(***************************************************************************)
(* C6.  An input one of whose fields composes to a date that is not in the *)
(* calendar (a day beyond the month's length, February 29 of a common      *)
(* year) is rejected; February 29 of a leap year is accepted.              *)
(***************************************************************************)
MonthLengths == <<31, 28, 31, 30, 31, 30, 31, 31, 30, 31, 30, 31>>

LeapYears ==
    {4 * k : k \in 0..600} \ ({100 * k : k \in 0..24} \ {400 * k : k \in 0..6})

InCalendar(y, m, d) ==
    /\ m \in 1..12
    /\ d >= 1
    /\ d <= MonthLengths[m] \/ (m = 2 /\ d = 29 /\ y \in LeapYears)

\* A text of three runs of digits separated by '-'.
Numeric(date) ==
    /\ NumFields(date, {"-"}) = 3
    /\ \A k \in 1..3 :
          LET f == FieldNo(date, {"-"}, k)
          IN  f # <<>> /\ \A i \in 1..Len(f) : IsDigit(f[i])

Nonexistent(date) ==
    /\ Numeric(date)
    /\ ~InCalendar(DigitsVal(FieldNo(date, {"-"}, 1)), DigitsVal(FieldNo(date, {"-"}, 2)),
                   DigitsVal(FieldNo(date, {"-"}, 3)))

SomeNonexistent(s, seps) ==
    \E k \in 1..NumFields(s, seps) : Nonexistent(ComposedNo(s, seps, k))

LeapDay == FormatDash(YearMonth(2024, 2), Pad(29, 2))

C6_NonexistentDatesRejected ==
    /\ (Applied("dates_list_check") /\ SomeNonexistent(input, {",", ";"})) => IsErr(ret)
    /\ (Applied("parse_date_multiple_days") /\ SomeNonexistent(input, {","})) => IsErr(ret)
    /\ (call.op \in {"dates_list_check", "parse_date_multiple_days"} /\ input = LeapDay)
          => (IsOk(ret) /\ ret.val = <<LeapDay>>)

\* A rejected unit whose first date exists and whose bare second day does not.
C6_Witness ==
    /\ Applied("dates_list_check")
    /\ IsErr(ret)
    /\ NumFields(input, {",", ";"}) = 2
    /\ SepAt(input, {","}) # {}
    /\ Numeric(ComposedNo(input, {","}, 1))
    /\ ~Nonexistent(ComposedNo(input, {","}, 1))
    /\ Nonexistent(ComposedNo(input, {","}, 2))

(***************************************************************************)
(* C7.  dates_list_check returns an error for an input with an empty       *)
(* segment (the empty input, a leading, trailing or doubled ';', a ','     *)
(* with no day after it) and for an input one of whose units it rejects    *)
(* when given alone; parse_date_multiple_days returns an error for the     *)
(* empty string, a trailing ',' and a ';' in its unit.                     *)
(***************************************************************************)
EmptySegment(s, seps) == \E k \in 1..NumFields(s, seps) : FieldNo(s, seps, k) = <<>>

C7_EmptySegmentsRejected ==
    /\ (Applied("dates_list_check") /\ EmptySegment(input, {",", ";"})) => IsErr(ret)
    /\ (Applied("dates_list_check")
          /\ \E k \in 1..NumFields(input, {";"}) :
                ~IsOk(dates_list_check(FieldNo(input, {";"}, k))))
        => IsErr(ret)
    /\ (Applied("parse_date_multiple_days")
          /\ (input = <<>> \/ input[Len(input)] = "," \/ SepAt(input, {";"}) # {}))
        => IsErr(ret)

\* A rejected list whose empty unit stands between two units accepted alone.
C7_Witness ==
    /\ Applied("dates_list_check")
    /\ IsErr(ret)
    /\ NumFields(input, {";"}) = 3
    /\ FieldNo(input, {";"}, 2) = <<>>
    /\ IsOk(dates_list_check(FieldNo(input, {";"}, 1)))
    /\ IsOk(dates_list_check(FieldNo(input, {";"}, 3)))

(***************************************************************************)
(* C8.  An accepted counter list gives exactly one (period, value) pair    *)
(* per comma-separated segment, in input order, repeated periods kept; the *)
(* period is the digit after 'p', in 0..9, and the value is the integer    *)
(* written after the first '='.  parse_meter_counter gives that pair for a *)
(* single segment.                                                         *)
(***************************************************************************)
\* The integer a segment writes after its first '='.
WrittenValue(seg) ==
    LET eq == CHOOSE i \in SepAt(seg, {"="}) : \A j \in SepAt(seg, {"="}) : i <= j
    IN  DigitsVal(SelectSeq(SubSeq(seg, eq + 1, Len(seg)), LAMBDA c : c # "+"))

PairWritten(seg, pair) ==
    /\ seg[1] = "p"
    /\ IsDigit(seg[2])
    /\ pair[1] = DigitVal(seg[2])
    /\ pair[1] \in 0..9
    /\ pair[2] = WrittenValue(seg)

C8_OnePairPerSegmentInOrder ==
    /\ (Applied("meter_counters_check") /\ IsOk(ret)) =>
          /\ Len(ret.val) = NumFields(input, {","})
          /\ \A k \in 1..Len(ret.val) : PairWritten(FieldNo(input, {","}, k), ret.val[k])
    /\ (Applied("parse_meter_counter") /\ IsOk(ret)) => PairWritten(input, ret.val)

\* An accepted list of three segments whose first and last name one period.
C8_Witness ==
    /\ Applied("meter_counters_check")
    /\ IsOk(ret)
    /\ Len(ret.val) = 3
    /\ ret.val[1][1] = ret.val[3][1]
    /\ ret.val[2][1] # ret.val[1][1]
    /\ ret.val[2][2] # ret.val[1][2]

(***************************************************************************)
(* C9.  meter_counters_check and parse_meter_counter accept only pairs of  *)
(* the grammar p<one decimal digit>=<one or more decimal digits>: every    *)
(* segment of an accepted input is of that grammar (so a signed value is   *)
(* rejected).                                                              *)
(***************************************************************************)
InGrammar(seg) ==
    /\ Len(seg) >= 4
    /\ seg[1] = "p"
    /\ IsDigit(seg[2])
    /\ seg[3] = "="
    /\ \A i \in 4..Len(seg) : IsDigit(seg[i])

C9_OnlyGrammarPairsAccepted ==
    /\ (Applied("meter_counters_check") /\ IsOk(ret)) =>
          \A k \in 1..NumFields(input, {","}) : InGrammar(FieldNo(input, {","}, k))
    /\ (Applied("parse_meter_counter") /\ IsOk(ret)) => InGrammar(input)

(***************************************************************************)
(* C10.  Every date of an accepted input has the shape yyyy-mm-dd: four    *)
(* digits, '-', two digits, '-', two digits.                               *)
(***************************************************************************)
ShapeYyyyMmDd(date) ==
    /\ Len(date) = 10
    /\ date[5] = "-"
    /\ date[8] = "-"
    /\ \A i \in (1..10) \ {5, 8} : IsDigit(date[i])

C10_AcceptedDatesAreYyyyMmDd ==
    (call.op \in {"dates_list_check", "parse_date_multiple_days"} /\ IsOk(ret)) =>
        \A k \in 1..Len(ret.val) : ShapeYyyyMmDd(ret.val[k])

(***************************************************************************)
(* C11.  Whatever the input, the four parsers return a value, Ok or Err:   *)
(* none of them aborts the process.                                        *)
(***************************************************************************)
Parsers ==
    {"dates_list_check", "parse_date_multiple_days",
     "meter_counters_check", "parse_meter_counter"}

C11_ParsersAlwaysReturn == call.op \in Parsers => ret.kind \in {"Ok", "Err"}

(***************************************************************************)
(* C12.  No call, successful or failing, changes periods_times or          *)
(* period_bank_holidays; with_bank_holidays leaves counters as they were   *)
(* and with_counters leaves bank_holidays as it was; bank_holidays never   *)
(* loses an element and counters never loses a key.                        *)
(***************************************************************************)
C12_CallsKeepTheFrame ==
    [][/\ periods_times' = periods_times
       /\ period_bank_holidays' = period_bank_holidays
       /\ call'.op = "with_bank_holidays" => counters' = counters
       /\ call'.op = "with_counters" => bank_holidays' = bank_holidays
       /\ bank_holidays \subseteq bank_holidays'
       /\ (DOMAIN counters) \subseteq (DOMAIN counters')]_vars

\* A registry built with the default windows that has stored holidays, has
\* seen a with_bank_holidays call fail and holds counters of two periods.
C12_Witness ==
    /\ periods_times = index_period_times(DefaultWindows)
    /\ period_bank_holidays = 3
    /\ bank_holidays # {}
    /\ ~allOk
    /\ Cardinality(DOMAIN counters) = 2
    /\ Len(pairsLog) = 3

(***************************************************************************)
(* C13.  The list parsers agree with the single-unit parsers.  With the    *)
(* input cut at its ';' into units, dates_list_check succeeds exactly when *)
(* parse_date_multiple_days succeeds on every unit, and then returns their *)
(* results concatenated in order; with the input cut at its ',' into       *)
(* pairs, meter_counters_check succeeds exactly when parse_meter_counter   *)
(* succeeds on every pair, and then returns the list of their results.     *)
(***************************************************************************)
RECURSIVE ConcatTo(_, _)
\* f[1] \o ... \o f[n]
ConcatTo(f, n) == IF n = 0 THEN <<>> ELSE ConcatTo(f, n - 1) \o f[n]

C13_ListParsersAgreeWithUnitParsers ==
    /\ Applied("dates_list_check") =>
          LET n == NumFields(input, {";"})
              P == [k \in 1..n |-> parse_date_multiple_days(FieldNo(input, {";"}, k))]
          IN  /\ IsOk(ret) <=> \A k \in 1..n : IsOk(P[k])
              /\ IsOk(ret) => ret.val = ConcatTo([k \in 1..n |-> P[k].val], n)
    /\ Applied("meter_counters_check") =>
          LET n == NumFields(input, {","})
              Q == [k \in 1..n |-> parse_meter_counter(FieldNo(input, {","}, k))]
          IN  /\ IsOk(ret) <=> \A k \in 1..n : IsOk(Q[k])
              /\ IsOk(ret) => ret.val = [k \in 1..n |-> Q[k].val]

\* An accepted date list of two units, one of them of two fields.
C13_Witness ==
    /\ Applied("dates_list_check")
    /\ IsOk(ret)
    /\ NumFields(input, {";"}) = 2
    /\ NumFields(input, {",", ";"}) = 3
    /\ Len(ret.val) = 3
    /\ IsOk(parse_date_multiple_days(FieldNo(input, {";"}, 1)))
    /\ IsOk(parse_date_multiple_days(FieldNo(input, {";"}, 2)))

(***************************************************************************)
(* C14.  index_period_times terminates on every window list with start in  *)
(* 0..23 and end in 0..24: the fill loop of a window runs one pass when     *)
(* end >= start and exactly two passes when end < start, it writes no hour  *)
(* slot twice (so at most 24 writes per window), and every index it writes  *)
(* lies in 0..23.  The table after the last window is the one returned.     *)
(***************************************************************************)
\* The fill of the i-th window of ws, on the table the windows before it left.
WindowFill(ws, i) == IndexWindow(index_period_times(SubSeq(ws, 1, i - 1)), ws[i])

C14_BoundedFillPerWindow ==
    Applied("index_period_times") =>
        \A i \in 1..Len(input) :
            LET w == input[i]
                f == WindowFill(input, i)
            IN  /\ w[2] \in 0..(HoursPerDay - 1) /\ w[3] \in 0..HoursPerDay
                /\ f.passes = IF w[3] >= w[2] THEN 1 ELSE 2
                /\ Len(f.writes) <= HoursPerDay
                /\ \A a, b \in 1..Len(f.writes) : a # b => f.writes[a] # f.writes[b]
                /\ \A a \in 1..Len(f.writes) : f.writes[a] \in 0..(HoursPerDay - 1)
                /\ i = Len(input) => f.pt = periods_times

\* A window that wraps past midnight and writes in both of its passes,
\* followed by a window that writes all 24 slots in its one pass.
C14_Witness ==
    /\ Applied("index_period_times")
    /\ Len(input) = 2
    /\ input[1][3] < input[1][2]
    /\ input[1][3] > 0
    /\ WindowFill(input, 1).passes = 2
    /\ Len(WindowFill(input, 1).writes) = HoursPerDay - input[1][2] + input[1][3]
    /\ WindowFill(input, 2).passes = 1
    /\ Len(WindowFill(input, 2).writes) = HoursPerDay

====
